---- MODULE Spec2Model ----
(***************************************************************************)
(* A model of the FLAC encoder of nooooaaaaah/soundCompression:            *)
(*   flac/encoder.go  (Encoder: NewEncoder, Encode, writeStreamHeader,     *)
(*                     writeStreamInfo, encodeBlock, writeStreamFooter,    *)
(*                     Close)                                              *)
(*   audio/wav.go     (NewWAVFormat, readHeader, WAVFormat: ReadSamples,   *)
(*                     bytesToInt32, TotalSamples)                         *)
(* The output file is a sequence of bytes, the WAV file a sequence of      *)
(* sample bytes with a read offset.  Every call of Write and of Read is    *)
(* one step, so that a failure of either can be placed anywhere.           *)
(***************************************************************************)
EXTENDS Integers, Sequences, FiniteSets, TLC

VARIABLES
    sampleRate,     \* WAVFormat.Samplerate
    channels,       \* WAVFormat.NumChannels
    bitDepth,       \* WAVFormat.BitsPerSample
    subchunk2Size,  \* WAVFormat.Subchunk2Size
    blockAlign,     \* WAVFormat.BlockAlign
    data,           \* the bytes of the input file after its 44-byte header
    pos,            \* the input file's read offset into data
    reportsEOF,     \* the kind of audio.Format: TRUE for one that returns io.EOF
    wavFile,        \* the file at the path given to NewWAVFormat: whether it opens,
                    \* its bytes, whether its offset can be asked for
    header,         \* the header bytes readHeader has read into the WAVFormat
    wavFormat,      \* the *WAVFormat NewWAVFormat returned: "nil" or "wav"
    created,        \* os.Create has made the output file
    out,            \* the bytes of the output file
    minBlockSize,   \* Encoder.minBlockSize
    maxBlockSize,   \* Encoder.maxBlockSize
    md5sum,         \* Encoder.md5sum (<<>> is the nil slice)
    streamInfo,     \* writeStreamInfo's local streamInfo, once it is filled
    pc,             \* where the running call stands
    call,           \* the entry point under test: "Encode" or "writeStreamInfo"
    block,          \* buffer[:n], the block handed to encodeBlock
    idx,            \* encodeBlock's range index into block
    result,         \* what the call returned: "none" while it runs
    ioErr,          \* a Write or a source read of the call returned an error
                    \* other than io.EOF
    madeBy,         \* how the Encoder was built: "NewEncoder" or "literal"
    delivered,      \* every sample ReadSamples has handed to Encode, in order
    blockStart,     \* the length of the output when encodeBlock was last entered
    readRet,        \* what the last call of ReadSamples found and returned
    input,          \* Encoder.input: "nil" or "source", the audio.Format given
    outOpen,        \* the handle Encoder.output is open
    calls,          \* the calls of Encode made on the Encoder
    closeRet,       \* what Encoder.Close returned: "none" before it is called
    blockOrder      \* "full" while every block so far filled the buffer, "short"
                    \* once one did not, "afterShort" once a block followed it

vars == <<sampleRate, channels, bitDepth, subchunk2Size, blockAlign, data, pos,
          reportsEOF, created, out, minBlockSize, maxBlockSize, md5sum, streamInfo,
          pc, call, block, idx, result, ioErr, madeBy, delivered, blockStart,
          readRet, blockOrder, input, outOpen, calls, closeRet, wavFile, header,
          wavFormat>>

\* The Encoder's input and output handle and the calls made on it.
lifeVars == <<input, outOpen, calls, closeRet>>

\* What Encode's calls of ReadSamples have left behind.
readVars == <<delivered, blockStart, readRet, blockOrder>>

srcVars == <<sampleRate, channels, bitDepth, subchunk2Size, blockAlign, data,
             reportsEOF, wavFile, header, wavFormat>>

(***************************************************************************)
(* Bounds of the model.                                                    *)
(***************************************************************************)
MaxDataBytes == 3

(***************************************************************************)
(* Program constants.                                                      *)
(***************************************************************************)
StreamInfoSize == 34
DefaultMinBlockSize == 4096
DefaultMaxBlockSize == 4096

FlacMarker == <<102, 76, 97, 67>>          \* "fLaC"
StreamInfoBlockHeader == <<0, 0, 0, 34>>   \* 0x00 0x00 0x00 0x22

(***************************************************************************)
(* Arithmetic on bytes.                                                    *)
(***************************************************************************)
RECURSIVE BitOr(_, _)
BitOr(a, b) ==
    IF a = 0 THEN b
    ELSE IF b = 0 THEN a
    ELSE (IF a % 2 = 1 \/ b % 2 = 1 THEN 1 ELSE 0) + 2 * BitOr(a \div 2, b \div 2)

\* Go's byte(x) of an int: the low 8 bits.
ToByte(x) == x % 256

\* binary.BigEndian.PutUint16 of uint16(x)
PutUint16BE(x) == << (x \div 256) % 256, x % 256 >>

\* binary.BigEndian.PutUint32 of uint32(x) << 4, byte by byte
PutUint32BEShl4(x) ==
    << (x \div 1048576) % 256, (x \div 4096) % 256, (x \div 16) % 256, (x % 16) * 16 >>

\* binary.BigEndian.PutUint64 of a value below 2^31
PutUint64BE(x) ==
    << 0, 0, 0, 0, (x \div 16777216) % 256, (x \div 65536) % 256, (x \div 256) % 256, x % 256 >>

Zeros(n) == [k \in 1..n |-> 0]

(***************************************************************************)
(* audio.WAVFormat                                                         *)
(***************************************************************************)
TotalSamples == subchunk2Size \div blockAlign

\* The byte writeStreamInfo stores at streamInfo[14].
ChannelsBitsByte(ch, bd) == BitOr((ToByte(ch - 1) * 16) % 256, ToByte(bd - 1))

\* The 34-byte STREAMINFO body that writeStreamInfo builds: make([]byte, 34)
\* and six writes into it.  A byte holds what the last write that covers it
\* stored, so the writes are tested from the last one back to the first:
\*   copy(streamInfo[18:], md5)        bytes 18 .. 18+len(md5)-1
\*   PutUint64(streamInfo[18:26], ..)  bytes 18 .. 25
\*   streamInfo[14] = ..               byte  14
\*   PutUint32(streamInfo[10:14], ..)  bytes 10 .. 13
\*   PutUint16(streamInfo[2:4], ..)    bytes 2 .. 3
\*   PutUint16(streamInfo[0:2], ..)    bytes 0 .. 1
StreamInfo(minBS, maxBS, rate, ch, bd, total, md5) ==
    [k \in 1..StreamInfoSize |->
        LET at == k - 1
        IN  IF at >= 18 /\ at - 18 < Len(md5) THEN md5[at - 18 + 1]
            ELSE IF at >= 18 /\ at < 26 THEN PutUint64BE(total)[at - 18 + 1]
            ELSE IF at = 14 THEN ChannelsBitsByte(ch, bd)
            ELSE IF at >= 10 /\ at < 14 THEN PutUint32BEShl4(rate)[at - 10 + 1]
            ELSE IF at >= 2 /\ at < 4 THEN PutUint16BE(maxBS)[at - 2 + 1]
            ELSE IF at < 2 THEN PutUint16BE(minBS)[at + 1]
            ELSE 0]

BytesPerSample == bitDepth \div 8

\* bytesToInt32 with the 16-bit case left unsigned: int32(Uint16(bytes)).
bytesToInt32Unsigned16(bd, bytes) ==
    CASE bd = 8  -> bytes[1] - 128
      [] bd = 16 -> bytes[1] + 256 * bytes[2]
      [] bd = 24 -> LET s == bytes[1] + 256 * bytes[2] + 65536 * bytes[3]
                    IN  IF s >= 8388608 THEN s - 16777216 ELSE s
      [] bd = 32 -> bytes[1] + 256 * bytes[2] + 65536 * bytes[3]
                    + 16777216 * (IF bytes[4] >= 128 THEN bytes[4] - 256 ELSE bytes[4])
      [] OTHER   -> 0

\* WAVFormat.bytesToInt32 on the bytes of one sample
bytesToInt32(bd, bytes) ==
    CASE bd = 8  -> bytes[1] - 128
      [] bd = 16 -> LET u == bytes[1] + 256 * bytes[2]
                    IN  IF u >= 32768 THEN u - 65536 ELSE u
      [] bd = 24 -> LET s == bytes[1] + 256 * bytes[2] + 65536 * bytes[3]
                    IN  IF s >= 8388608 THEN s - 16777216 ELSE s
      [] bd = 32 -> bytes[1] + 256 * bytes[2] + 65536 * bytes[3]
                    + 16777216 * (IF bytes[4] >= 128 THEN bytes[4] - 256 ELSE bytes[4])
      [] OTHER   -> 0

\* len(buffer) in Encode: make([]int32, e.minBlockSize*e.input.Channels())
BufferLen == minBlockSize * channels

\* The count n that w.file.Read(bytesBuffer) returns when it does not fail.
FileReadCount ==
    LET want == BufferLen * BytesPerSample
        left == Len(data) - pos
    IN  IF want <= left THEN want ELSE left

\* w.file.Read returns io.EOF: a non-empty buffer and nothing left in the file.
FileReadEOF == BufferLen * BytesPerSample > 0 /\ pos = Len(data)

\* buffer[:samplesRead] after the conversion loop of ReadSamples
SamplesOf(n) ==
    LET bps == BytesPerSample
    IN  [k \in 1..(n \div bps) |->
            bytesToInt32(bitDepth, SubSeq(data, pos + (k - 1) * bps + 1, pos + k * bps))]

\* The same int32 written with binary.BigEndian.
Int32BE(v) ==
    << (v \div 16777216) % 256, (v \div 65536) % 256, (v \div 256) % 256, v % 256 >>

\* binary.Write(e.output, binary.LittleEndian, sample) of an int32
Int32LE(v) ==
    << v % 256, (v \div 256) % 256, (v \div 65536) % 256, (v \div 16777216) % 256 >>

(***************************************************************************)
(* crypto/md5 (RFC 1321) on a message of at most 55 bytes: one 64-byte     *)
(* block.  A 32-bit word is a pair <<high half, low half>> of 16-bit       *)
(* numbers.                                                                *)
(***************************************************************************)
RECURSIVE And16(_, _)
And16(a, b) ==
    IF a = 0 \/ b = 0 THEN 0
    ELSE (a % 2) * (b % 2) + 2 * And16(a \div 2, b \div 2)

Or16(a, b) == a + b - And16(a, b)
Xor16(a, b) == a + b - 2 * And16(a, b)
Not16(a) == 65535 - a

And32(v, w) == << And16(v[1], w[1]), And16(v[2], w[2]) >>
Or32(v, w) == << Or16(v[1], w[1]), Or16(v[2], w[2]) >>
Xor32(v, w) == << Xor16(v[1], w[1]), Xor16(v[2], w[2]) >>
Not32(v) == << Not16(v[1]), Not16(v[2]) >>

Add32(v, w) ==
    LET lo == v[2] + w[2]
        hi == v[1] + w[1] + lo \div 65536
    IN  << hi % 65536, lo % 65536 >>

Pow2(n) == [k \in 0..16 |-> 2^k][n]

RotateLeft32(v, s) ==
    LET w == IF s >= 16 THEN << v[2], v[1] >> ELSE v
        r == IF s >= 16 THEN s - 16 ELSE s
    IN  IF r = 0 THEN w
        ELSE << ((w[1] * Pow2(r)) % 65536) + (w[2] \div Pow2(16 - r)),
                ((w[2] * Pow2(r)) % 65536) + (w[1] \div Pow2(16 - r)) >>

MD5Shifts ==
    << 7, 12, 17, 22, 7, 12, 17, 22, 7, 12, 17, 22, 7, 12, 17, 22,
       5, 9, 14, 20, 5, 9, 14, 20, 5, 9, 14, 20, 5, 9, 14, 20,
       4, 11, 16, 23, 4, 11, 16, 23, 4, 11, 16, 23, 4, 11, 16, 23,
       6, 10, 15, 21, 6, 10, 15, 21, 6, 10, 15, 21, 6, 10, 15, 21 >>

\* floor(2^32 * abs(sin(i + 1))), i = 0..63
MD5Sines ==
    <<
       <<55146, 42104>>, <<59591, 46934>>, <<9248, 28891>>, <<49597, 52974>>,
       <<62844, 4015>>, <<18311, 50730>>, <<43056, 17939>>, <<64838, 38145>>,
       <<27008, 39128>>, <<35652, 63407>>, <<65535, 23473>>, <<35164, 55230>>,
       <<27536, 4386>>, <<64920, 29075>>, <<42617, 17294>>, <<18868, 2081>>,
       <<63006, 9570>>, <<49216, 45888>>, <<9822, 23121>>, <<59830, 51114>>,
       <<54831, 4189>>, <<580, 5203>>, <<55457, 59009>>, <<59347, 64456>>,
       <<8673, 52710>>, <<49975, 2006>>, <<62677, 3463>>, <<17754, 5357>>,
       <<43491, 59653>>, <<64751, 41976>>, <<26479, 729>>, <<36138, 19594>>,
       <<65530, 14658>>, <<34673, 63105>>, <<28061, 24866>>, <<64997, 14348>>,
       <<42174, 59972>>, <<19422, 53161>>, <<63163, 19296>>, <<48831, 48240>>,
       <<10395, 32454>>, <<60065, 10234>>, <<54511, 12421>>, <<1160, 7429>>,
       <<55764, 53305>>, <<59099, 39397>>, <<8098, 31992>>, <<50348, 22117>>,
       <<62505, 8772>>, <<17194, 65431>>, <<43924, 9127>>, <<64659, 41017>>,
       <<25947, 22979>>, <<36620, 52370>>, <<65519, 62589>>, <<34180, 24017>>,
       <<28584, 32335>>, <<65068, 59104>>, <<41729, 17172>>, <<19976, 4513>>,
       <<63315, 32386>>, <<48442, 62005>>, <<10967, 53947>>, <<60294, 54161>>
    >>

MD5InitState == << <<26437, 8961>>, <<61389, 43913>>, <<39098, 56574>>, <<4146, 21622>> >>

\* The message, the 0x80 byte, zeros up to byte 56, the bit length in 8 bytes.
MD5Pad(msg) ==
    LET n == Len(msg)
    IN  [k \in 1..64 |->
            IF k <= n THEN msg[k]
            ELSE IF k = n + 1 THEN 128
            ELSE IF k = 57 THEN (8 * n) % 256
            ELSE IF k = 58 THEN (8 * n) \div 256
            ELSE 0]

\* Word g (0..15) of the block, little-endian.
MD5Word(blk, g) ==
    << blk[4 * g + 4] * 256 + blk[4 * g + 3], blk[4 * g + 2] * 256 + blk[4 * g + 1] >>

\* One of the 64 operations of the block transform, on the state <<a, b, c, d>>.
MD5Step(i, st, blk) ==
    LET a == st[1]
        b == st[2]
        c == st[3]
        d == st[4]
        f == CASE i < 16 -> Or32(And32(b, c), And32(Not32(b), d))
               [] i >= 16 /\ i < 32 -> Or32(And32(d, b), And32(Not32(d), c))
               [] i >= 32 /\ i < 48 -> Xor32(Xor32(b, c), d)
               [] OTHER -> Xor32(c, Or32(b, Not32(d)))
        g == CASE i < 16 -> i
               [] i >= 16 /\ i < 32 -> (5 * i + 1) % 16
               [] i >= 32 /\ i < 48 -> (3 * i + 5) % 16
               [] OTHER -> (7 * i) % 16
        t == Add32(Add32(a, f), Add32(MD5Sines[i + 1], MD5Word(blk, g)))
    IN  << d, Add32(b, RotateLeft32(t, MD5Shifts[i + 1])), b, c >>

RECURSIVE MD5Rounds(_, _, _)
MD5Rounds(i, st, blk) ==
    IF i < 64 /\ Len(st) = 4
      THEN MD5Rounds(i + 1, MD5Step(i, st, blk), blk)
      ELSE st

Word32LE(v) == << v[2] % 256, v[2] \div 256, v[1] % 256, v[1] \div 256 >>

\* md5.Sum of msg: 16 bytes
MD5(msg) ==
    LET s == MD5InitState
        r == MD5Rounds(0, s, MD5Pad(msg))
    IN  Word32LE(Add32(s[1], r[1])) \o Word32LE(Add32(s[2], r[2]))
        \o Word32LE(Add32(s[3], r[3])) \o Word32LE(Add32(s[4], r[4]))

(***************************************************************************)
(* e.output.Write(bytes): all of them and a nil error, or any shorter      *)
(* prefix and an error.                                                    *)
(***************************************************************************)
WriteOK(bytes) == out' = out \o bytes /\ UNCHANGED ioErr

WriteFails(bytes) ==
    /\ \E n \in 0..(Len(bytes) - 1) : out' = out \o SubSeq(bytes, 1, n)
    /\ ioErr' = TRUE

Return(r) == pc' = "done" /\ result' = r

\* NewEncoder returning &Encoder{input: input, output: outputFile}: the block
\* sizes keep their zero values.
NewEncoderNoDefaults ==
    /\ pc = "new"
    /\ \/ /\ created' = TRUE
          /\ out' = <<>>
          /\ md5sum' = <<>>
          /\ madeBy' = "NewEncoder"
          /\ input' = "source"
          /\ outOpen' = TRUE
          /\ pc' = "ready"
          /\ UNCHANGED <<result, minBlockSize, maxBlockSize>>
       \/ /\ Return("createErr")
          /\ UNCHANGED <<created, out, minBlockSize, maxBlockSize, md5sum, madeBy,
                         input, outOpen>>
    /\ UNCHANGED <<srcVars, readVars, calls, closeRet, pos, streamInfo, call, block,
                   idx, ioErr>>

(***************************************************************************)
(* flac.NewEncoder                                                         *)
(***************************************************************************)
NewEncoder ==
    /\ pc = "new"
    /\ \/ /\ created' = TRUE                     \* os.Create succeeded
          /\ out' = <<>>
          /\ minBlockSize' = DefaultMinBlockSize
          /\ maxBlockSize' = DefaultMaxBlockSize
          /\ md5sum' = <<>>
          /\ madeBy' = "NewEncoder"
          /\ input' = "source"
          /\ outOpen' = TRUE
          /\ pc' = "ready"
          /\ UNCHANGED result
       \/ /\ Return("createErr")                 \* os.Create failed: nil Encoder
          /\ UNCHANGED <<created, out, minBlockSize, maxBlockSize, md5sum, madeBy,
                         input, outOpen>>
    /\ UNCHANGED <<srcVars, readVars, calls, closeRet, pos, streamInfo, call, block,
                   idx, ioErr>>

\* The block sizes of an Encoder built as a struct literal (TestWriteStreamInfo).
LiteralBlockSizes == {1, 2}

\* &Encoder{output: outputFile, input: audioFormat, minBlockSize: ..., ...}
EncoderLiteral ==
    /\ pc = "new"
    /\ created' = TRUE
    /\ out' = <<>>
    /\ \E bs \in LiteralBlockSizes : minBlockSize' = bs /\ maxBlockSize' = bs
    /\ md5sum' = Zeros(16)
    /\ madeBy' = "literal"
    /\ input' = "source"
    /\ outOpen' = TRUE
    /\ pc' = "ready"
    /\ UNCHANGED <<srcVars, readVars, calls, closeRet, pos, streamInfo, call, block,
                   idx, result, ioErr>>

(***************************************************************************)
(* Encoder.Encode                                                          *)
(***************************************************************************)
Encode ==
    /\ pc = "ready"
    /\ pc' = "marker"
    /\ calls' = calls + 1
    /\ UNCHANGED <<srcVars, readVars, input, outOpen, closeRet, pos, created, out,
                   minBlockSize, maxBlockSize, md5sum,
                   streamInfo, call, block, idx, result, ioErr, madeBy>>

\* writeStreamHeader: e.output.Write([]byte("fLaC"))
WriteMarker ==
    /\ pc = "marker"
    /\ \/ WriteOK(FlacMarker) /\ pc' = "infohdr" /\ UNCHANGED result
       \/ WriteFails(FlacMarker) /\ Return("headerErr")
    /\ UNCHANGED <<srcVars, readVars, lifeVars, pos, created, minBlockSize,
                   maxBlockSize, md5sum, call,
                   streamInfo, block, idx, madeBy>>

\* The body with streamInfo made one byte short: make([]byte, 33).
InfoBodyShort ==
    SubSeq(StreamInfo(minBlockSize, maxBlockSize, sampleRate, channels, bitDepth,
                      TotalSamples, md5sum), 1, StreamInfoSize - 1)

\* The body writeStreamInfo builds from the Encoder and its input.
InfoBody ==
    StreamInfo(minBlockSize, maxBlockSize, sampleRate, channels, bitDepth,
               TotalSamples, md5sum)

\* writeStreamInfo: e.output.Write([]byte{0x00, 0x00, 0x00, 0x22}), and on
\* success the filling of streamInfo
WriteInfoHeader ==
    /\ pc = "infohdr"
    /\ \/ /\ WriteOK(StreamInfoBlockHeader)
          /\ streamInfo' = InfoBody
          /\ pc' = "infobody"
          /\ UNCHANGED result
       \/ /\ WriteFails(StreamInfoBlockHeader)
          /\ Return(IF call = "Encode" THEN "headerErr" ELSE "writeErr")
          /\ UNCHANGED streamInfo
    /\ UNCHANGED <<srcVars, readVars, lifeVars, pos, created, minBlockSize,
                   maxBlockSize, md5sum, call,
                   block, idx, madeBy>>

\* writeStreamInfo: e.output.Write(streamInfo), and the return to the caller
WriteInfoBody ==
    /\ pc = "infobody"
    /\ \/ /\ WriteOK(streamInfo)
          /\ IF call = "Encode"
               THEN pc' = "read" /\ UNCHANGED result
               ELSE Return("nil")
       \/ WriteFails(streamInfo)
          /\ Return(IF call = "Encode" THEN "headerErr" ELSE "writeErr")
    /\ UNCHANGED <<srcVars, readVars, lifeVars, pos, created, minBlockSize,
                   maxBlockSize, md5sum, call,
                   streamInfo, block, idx, madeBy>>

\* n, err := e.input.ReadSamples(buffer), and the tests Encode makes on err.
\* Encode takes any audio.Format.  WAVFormat (reportsEOF = FALSE) turns the
\* io.EOF of w.file.Read into (0, nil); the other kind of Format modelled here
\* (reportsEOF = TRUE) reads the same file the same way and hands io.EOF on.
ReadSamples ==
    /\ pc = "read"
    /\ \/ /\ Return("readErr")                   \* w.file.Read failed, not with io.EOF
          /\ ioErr' = TRUE
          /\ readRet' = [n |-> 0, atEnd |-> pos = Len(data), err |-> "error"]
          /\ UNCHANGED <<pos, block, idx, delivered, blockStart, blockOrder>>
       \/ /\ BytesPerSample = 0                  \* n / bytesPerSample divides by zero
          /\ pc' = "panicked"
          /\ UNCHANGED <<pos, block, idx, result, ioErr, readVars>>
       \/ /\ BytesPerSample > 0
          /\ reportsEOF /\ FileReadEOF           \* err == io.EOF: break
          /\ pc' = "footer"
          /\ readRet' = [n |-> 0, atEnd |-> TRUE, err |-> "EOF"]
          /\ UNCHANGED <<pos, block, idx, result, ioErr, delivered, blockStart,
                         blockOrder>>
       \/ /\ BytesPerSample > 0
          /\ ~(reportsEOF /\ FileReadEOF)
          /\ block' = SamplesOf(FileReadCount)
          /\ pos' = pos + FileReadCount
          /\ idx' = 1
          /\ pc' = "block"
          /\ delivered' = delivered \o SamplesOf(FileReadCount)
          /\ blockStart' = Len(out)
          /\ readRet' = [n |-> FileReadCount \div BytesPerSample,
                         atEnd |-> pos = Len(data), err |-> "nil"]
          /\ blockOrder' = IF blockOrder # "full" THEN "afterShort"
                           ELSE IF FileReadCount \div BytesPerSample < BufferLen
                                  THEN "short" ELSE "full"
          /\ UNCHANGED <<result, ioErr>>
    /\ UNCHANGED <<srcVars, lifeVars, created, out, minBlockSize, maxBlockSize,
                   md5sum, call, streamInfo, madeBy>>

\* encodeBlock with the error of binary.Write dropped: the loop goes on.
EncodeSampleKeepsGoing ==
    /\ pc = "block"
    /\ idx <= Len(block)
    /\ \/ WriteOK(Int32LE(block[idx]))
       \/ WriteFails(Int32LE(block[idx]))
    /\ idx' = idx + 1
    /\ UNCHANGED <<srcVars, readVars, lifeVars, pos, created, minBlockSize,
                   maxBlockSize, md5sum, call,
                   streamInfo, block, madeBy, pc, result>>

\* encodeBlock: one turn of the range loop, binary.Write of one sample
EncodeSample ==
    /\ pc = "block"
    /\ idx <= Len(block)
    /\ \/ WriteOK(Int32LE(block[idx])) /\ idx' = idx + 1 /\ UNCHANGED <<pc, result>>
       \/ WriteFails(Int32LE(block[idx])) /\ Return("encodeErr") /\ UNCHANGED idx
    /\ UNCHANGED <<srcVars, readVars, lifeVars, pos, created, minBlockSize,
                   maxBlockSize, md5sum, call,
                   streamInfo, block, madeBy>>

\* encodeBlock returns nil at the end of the range loop; Encode loops
EncodeBlockDone ==
    /\ pc = "block"
    /\ idx > Len(block)
    /\ pc' = "read"
    /\ UNCHANGED <<srcVars, readVars, lifeVars, pos, created, out, minBlockSize,
                   maxBlockSize, md5sum,
                   streamInfo, call, block, idx, result, ioErr, madeBy>>

\* writeStreamFooter: return fmt.Errorf("not implemented")
WriteStreamFooter ==
    /\ pc = "footer"
    /\ Return("footerErr")
    /\ UNCHANGED <<srcVars, readVars, lifeVars, pos, created, out, minBlockSize,
                   maxBlockSize, md5sum,
                   streamInfo, call, block, idx, ioErr, madeBy>>

\* The file of a WAVFormat that is already built: it opened, its header has
\* been read and is not kept here.
OpenedFile == [openable |-> TRUE, seekable |-> TRUE, bytes |-> <<>>]

(***************************************************************************)
(* The encoder run: a WAV file of at most MaxDataBytes sample bytes, an    *)
(* Encoder built on it, one call of Encode.                                *)
(***************************************************************************)
SampleBytes == {1, 200}
SampleRates == {44100}
ChannelCounts == {0, 1, 2, 9}
BitDepths == {4, 8, 16, 40}
BlockAligns == {1, 2}

RECURSIVE SeqsUpTo(_, _)
SeqsUpTo(S, n) ==
    IF n = 0 THEN {<<>>}
    ELSE LET shorter == SeqsUpTo(S, n - 1)
         IN  shorter \cup {Append(s, x) : s \in {t \in shorter : Len(t) = n - 1}, x \in S}

Init ==
    /\ sampleRate \in SampleRates
    /\ channels \in ChannelCounts
    /\ bitDepth \in BitDepths
    /\ blockAlign \in BlockAligns
    /\ data \in SeqsUpTo(SampleBytes, MaxDataBytes)
    /\ subchunk2Size = Len(data)
    /\ reportsEOF \in BOOLEAN
    /\ pos = 0
    /\ created = FALSE
    /\ out = <<>>
    /\ minBlockSize = 0
    /\ maxBlockSize = 0
    /\ md5sum = <<>>
    /\ streamInfo = <<>>
    /\ pc = "new"
    /\ call = "Encode"
    /\ block = <<>>
    /\ idx = 1
    /\ result = "none"
    /\ ioErr = FALSE
    /\ madeBy = "none"
    /\ delivered = <<>>
    /\ blockStart = 0
    /\ readRet = [n |-> 0, atEnd |-> FALSE, err |-> "none"]
    /\ blockOrder = "full"
    /\ input = "nil"
    /\ outOpen = FALSE
    /\ calls = 0
    /\ closeRet = "none"
    /\ wavFile = OpenedFile
    /\ header = <<>>
    /\ wavFormat = "wav"

Next ==
    \/ NewEncoder
    \/ EncoderLiteral
    \/ Encode
    \/ WriteMarker
    \/ WriteInfoHeader
    \/ WriteInfoBody
    \/ ReadSamples
    \/ EncodeSample
    \/ EncodeBlockDone
    \/ WriteStreamFooter

Spec == Init /\ [][Next]_vars

\* The caller and Encode run on one goroutine that is never descheduled for
\* good: whichever step is due is taken.
FairSpec ==
    /\ Spec
    /\ WF_vars(NewEncoder \/ EncoderLiteral)
    /\ WF_vars(Encode)
    /\ WF_vars(WriteMarker)
    /\ WF_vars(WriteInfoHeader)
    /\ WF_vars(WriteInfoBody)
    /\ WF_vars(ReadSamples)
    /\ WF_vars(EncodeSample)
    /\ WF_vars(EncodeBlockDone)
    /\ WF_vars(WriteStreamFooter)

(***************************************************************************)
(* Encode called again on an Encoder whose Encode has returned.  The       *)
(* Encoder keeps no record of a finished or failed run (encoder.go:22-29), *)
(* so the second call starts like the first, on the same output handle and *)
(* the same source.                                                        *)
(***************************************************************************)
MaxCalls == 2

EncodeAgain ==
    /\ pc = "done"
    /\ call = "Encode"
    /\ madeBy # "none"
    /\ calls < MaxCalls
    /\ pc' = "marker"
    /\ result' = "none"
    /\ ioErr' = FALSE
    /\ calls' = calls + 1
    /\ UNCHANGED <<srcVars, readVars, input, outOpen, closeRet, pos, created, out,
                   minBlockSize, maxBlockSize, md5sum, streamInfo, call, block, idx,
                   madeBy>>

\* A WAV file of 8-bit mono samples.
InitAgain == Init /\ channels = 1 /\ bitDepth = 8 /\ blockAlign = 1

NextAgain == Next \/ EncodeAgain

SpecAgain == InitAgain /\ [][NextAgain]_vars

(***************************************************************************)
(* A caller that ends with Encoder.Close: after building the Encoder, or   *)
(* after Encode has returned.                                              *)
(***************************************************************************)
\* Close with the handle kept when Encode had returned an error.
CloseUnlessFailed ==
    /\ pc \in {"ready", "done"}
    /\ madeBy # "none"
    /\ outOpen' = (outOpen /\ result \notin {"none", "nil"})
    /\ closeRet' \in {"nil", "closeErr"}
    /\ pc' = "closed"
    /\ UNCHANGED <<srcVars, readVars, input, calls, pos, created, out, minBlockSize,
                   maxBlockSize, md5sum, streamInfo, call, block, idx, result,
                   ioErr, madeBy>>

\* Encoder.Close: e.output is not nil on an Encoder that was built, so
\* e.output.Close() runs; it gives the descriptor up and returns nil or the
\* error of close(2).
Close ==
    /\ pc \in {"ready", "done"}
    /\ madeBy # "none"
    /\ outOpen' = FALSE
    /\ closeRet' \in {"nil", "closeErr"}
    /\ pc' = "closed"
    /\ UNCHANGED <<srcVars, readVars, input, calls, pos, created, out, minBlockSize,
                   maxBlockSize, md5sum, streamInfo, call, block, idx, result,
                   ioErr, madeBy>>

NextClose == Next \/ Close

SpecClose == Init /\ [][NextClose]_vars

(***************************************************************************)
(* writeStreamInfo called on its own, as TestWriteStreamInfo calls it: an  *)
(* Encoder built as a struct literal on an open WAV file and an empty      *)
(* output file.                                                            *)
(***************************************************************************)
InfoSampleRates == {0, 44100, 1048575}
InfoChannelCounts == 0..9
InfoBitDepths == 3..33
InfoBlockSizes == {0, 4096, 65536}
InfoDataSizes == {0, 176400}
InfoMd5sums == { <<>>, Zeros(16), [k \in 1..16 |-> 16 * k - 1] }

InitInfo ==
    /\ sampleRate \in InfoSampleRates
    /\ channels \in InfoChannelCounts
    /\ bitDepth \in InfoBitDepths
    /\ blockAlign = 4
    /\ subchunk2Size \in InfoDataSizes
    /\ data = <<>>
    /\ reportsEOF = FALSE
    /\ pos = 0
    /\ created = TRUE
    /\ out = <<>>
    /\ minBlockSize \in InfoBlockSizes
    /\ maxBlockSize = 4096
    /\ md5sum \in InfoMd5sums
    /\ streamInfo = <<>>
    /\ pc = "infohdr"
    /\ call = "writeStreamInfo"
    /\ block = <<>>
    /\ idx = 1
    /\ result = "none"
    /\ ioErr = FALSE
    /\ madeBy = "literal"
    /\ delivered = <<>>
    /\ blockStart = 0
    /\ readRet = [n |-> 0, atEnd |-> FALSE, err |-> "none"]
    /\ blockOrder = "full"
    /\ input = "source"
    /\ outOpen = TRUE
    /\ calls = 0
    /\ closeRet = "none"
    /\ wavFile = OpenedFile
    /\ header = <<>>
    /\ wavFormat = "wav"

NextInfo ==
    \/ WriteInfoHeader
    \/ WriteInfoBody

SpecInfo == InitInfo /\ [][NextInfo]_vars

(***************************************************************************)
(* WAVFormat.bytesToInt32 on its own: one group of BitsPerSample / 8 bytes *)
(* in data, converted in one step into block.                              *)
(***************************************************************************)
ConvBitDepths == {8, 16, 24, 32}
ConvBytes == {0, 1, 127, 128, 255}

\* Every group of n bytes over ConvBytes.
ByteGroups(n) == [1..n -> ConvBytes]

\* buffer[i] = w.bytesToInt32(sampleBytes)
Convert ==
    /\ pc = "convert"
    /\ block' = <<bytesToInt32(bitDepth, data)>>
    /\ pc' = "converted"
    /\ UNCHANGED <<srcVars, readVars, lifeVars, pos, created, out, minBlockSize,
                   maxBlockSize, md5sum, streamInfo, call, idx, result, ioErr,
                   madeBy>>

InitConv ==
    /\ sampleRate = 44100
    /\ channels = 1
    /\ bitDepth \in ConvBitDepths
    /\ blockAlign = bitDepth \div 8
    /\ data \in ByteGroups(bitDepth \div 8)
    /\ subchunk2Size = Len(data)
    /\ reportsEOF = FALSE
    /\ pos = 0
    /\ created = FALSE
    /\ out = <<>>
    /\ minBlockSize = 0
    /\ maxBlockSize = 0
    /\ md5sum = <<>>
    /\ streamInfo = <<>>
    /\ pc = "convert"
    /\ call = "bytesToInt32"
    /\ block = <<>>
    /\ idx = 1
    /\ result = "none"
    /\ ioErr = FALSE
    /\ madeBy = "none"
    /\ delivered = <<>>
    /\ blockStart = 0
    /\ readRet = [n |-> 0, atEnd |-> FALSE, err |-> "none"]
    /\ blockOrder = "full"
    /\ input = "nil"
    /\ outOpen = FALSE
    /\ calls = 0
    /\ closeRet = "none"
    /\ wavFile = OpenedFile
    /\ header = <<>>
    /\ wavFormat = "wav"

NextConv == Convert

SpecConv == InitConv /\ [][NextConv]_vars

(***************************************************************************)
(* audio.NewWAVFormat: os.Open, readHeader, and file.Close on a failed     *)
(* readHeader.  Each binary.Read of readHeader is one step.                *)
(***************************************************************************)
WAVHeaderSize == 44

\* The sizes of headerFields, the twelve fields read after ChunkID.
FieldSizes == <<4, 4, 4, 4, 2, 2, 4, 4, 2, 2, 4, 4>>

TagRIFF == <<82, 73, 70, 70>>
TagWAVE == <<87, 65, 86, 69>>
TagFmt == <<102, 109, 116, 32>>
TagData == <<100, 97, 116, 97>>

\* string(w.ChunkID[:]), string(w.Format[:]), string(w.Subchunk1ID[:]) and
\* string(w.Subchunk2ID[:]) of a header of 44 bytes
ChunkIDOf(h)     == SubSeq(h, 1, 4)
FormatOf(h)      == SubSeq(h, 9, 12)
Subchunk1IDOf(h) == SubSeq(h, 13, 16)
Subchunk2IDOf(h) == SubSeq(h, 37, 40)

\* binary.Read with binary.LittleEndian into a uint16 and into a uint32 field
\* that starts at byte k (from 1) of the header
Uint16LE(h, k) == h[k] + 256 * h[k + 1]
Uint32LE(h, k) == h[k] + 256 * h[k + 1] + 65536 * h[k + 2] + 16777216 * h[k + 3]

\* NewWAVFormat's  file.Close(); return nil, err
ReturnNoFormat(e) == wavFormat' = "nil" /\ Return(e)

wavRunVars == <<readVars, lifeVars, pos, created, out, minBlockSize, maxBlockSize,
                md5sum, streamInfo, call, block, madeBy, reportsEOF, wavFile>>

wavFields == <<sampleRate, channels, bitDepth, subchunk2Size, blockAlign, data>>

\* file, err := os.Open(path)
OpenFile ==
    /\ pc = "open"
    /\ IF wavFile.openable
         THEN pc' = "chunkid" /\ UNCHANGED <<result, wavFormat>>
         ELSE ReturnNoFormat("openErr")
    /\ UNCHANGED <<wavRunVars, wavFields, header, idx, ioErr>>

\* binary.Read of size bytes: they are read, or the file ends before them
\* (io.EOF, io.ErrUnexpectedEOF), or the read fails.
HeaderReadOK(size) ==
    /\ Len(wavFile.bytes) >= Len(header) + size
    /\ header' = header \o SubSeq(wavFile.bytes, Len(header) + 1, Len(header) + size)
    /\ UNCHANGED ioErr

HeaderReadFails(size, e) ==
    /\ ioErr' = TRUE
    /\ ReturnNoFormat(e)
    /\ UNCHANGED header

\* readHeader: binary.Read(&w.ChunkID) and the test for "RIFF"
ReadChunkID ==
    /\ pc = "chunkid"
    /\ \/ /\ HeaderReadOK(4)
          /\ IF ChunkIDOf(header') = TagRIFF
               THEN pc' = "fields" /\ idx' = 1 /\ UNCHANGED <<result, wavFormat>>
               ELSE ReturnNoFormat("notRIFF") /\ UNCHANGED idx
       \/ HeaderReadFails(4, "chunkIDErr") /\ UNCHANGED idx
    /\ UNCHANGED <<wavRunVars, wavFields>>

\* readHeader: one turn of the loop over headerFields
ReadHeaderField ==
    /\ pc = "fields"
    /\ idx <= Len(FieldSizes)
    /\ \/ /\ HeaderReadOK(FieldSizes[idx])
          /\ idx' = idx + 1
          /\ UNCHANGED <<pc, result, wavFormat>>
       \/ HeaderReadFails(FieldSizes[idx], "headerReadErr") /\ UNCHANGED idx
    /\ UNCHANGED <<wavRunVars, wavFields>>

\* readHeader with the test of Subchunk2ID left out.
CheckTagsNoData ==
    /\ pc = "fields"
    /\ idx > Len(FieldSizes)
    /\ IF FormatOf(header) # TagWAVE THEN ReturnNoFormat("notWAVE")
       ELSE IF Subchunk1IDOf(header) # TagFmt THEN ReturnNoFormat("noFmt")
       ELSE pc' = "seek" /\ UNCHANGED <<result, wavFormat>>
    /\ UNCHANGED <<wavRunVars, wavFields, header, idx, ioErr>>

\* readHeader: the tests for "WAVE", "fmt " and "data"
CheckTags ==
    /\ pc = "fields"
    /\ idx > Len(FieldSizes)
    /\ IF FormatOf(header) # TagWAVE THEN ReturnNoFormat("notWAVE")
       ELSE IF Subchunk1IDOf(header) # TagFmt THEN ReturnNoFormat("noFmt")
       ELSE IF Subchunk2IDOf(header) # TagData THEN ReturnNoFormat("noData")
       ELSE pc' = "seek" /\ UNCHANGED <<result, wavFormat>>
    /\ UNCHANGED <<wavRunVars, wavFields, header, idx, ioErr>>

\* readHeader: w.file.Seek(0, io.SeekCurrent), and NewWAVFormat's return of
\* the WAVFormat with the fields the reads have filled
SeekDataOffset ==
    /\ pc = "seek"
    /\ IF wavFile.seekable
         THEN /\ wavFormat' = "wav"
              /\ Return("nil")
              /\ channels' = Uint16LE(header, 23)
              /\ sampleRate' = Uint32LE(header, 25)
              /\ blockAlign' = Uint16LE(header, 33)
              /\ bitDepth' = Uint16LE(header, 35)
              /\ subchunk2Size' = Uint32LE(header, 41)
              /\ data' = SubSeq(wavFile.bytes, WAVHeaderSize + 1, Len(wavFile.bytes))
         ELSE ReturnNoFormat("seekErr") /\ UNCHANGED wavFields
    /\ UNCHANGED <<wavRunVars, header, idx, ioErr>>

\* The tags a file may carry in each of the four places: the right one and
\* one found in other RIFF files ("RIFX", "AVI ", "JUNK", "LIST").
ChunkIDs == {TagRIFF, <<82, 73, 70, 88>>}
Formats == {TagWAVE, <<65, 86, 73, 32>>}
Subchunk1IDs == {TagFmt, <<74, 85, 78, 75>>}
Subchunk2IDs == {TagData, <<76, 73, 83, 84>>}

\* A 44-byte header of 8-bit mono PCM at 44100 Hz with one sample byte
\* announced, under the four tags given.
WavHeader(id, format, sub1, sub2) ==
    id \o Int32LE(37) \o format
       \o sub1 \o Int32LE(16) \o <<1, 0>> \o <<1, 0>> \o Int32LE(44100)
       \o Int32LE(44100) \o <<1, 0>> \o <<8, 0>>
       \o sub2 \o Int32LE(1)

\* The lengths of the files tried: cut inside ChunkID, after it, inside and
\* after later fields, one byte short of the header, the header alone, and
\* the header with its sample byte.
WavFileLengths == {0, 3, 4, 11, 12, 20, 43, 44, 45}

WavFiles ==
    { SubSeq(WavHeader(id, format, sub1, sub2) \o <<200>>, 1, n) :
        id \in ChunkIDs, format \in Formats, sub1 \in Subchunk1IDs,
        sub2 \in Subchunk2IDs, n \in WavFileLengths }

InitWav ==
    /\ sampleRate = 0
    /\ channels = 0
    /\ bitDepth = 0
    /\ blockAlign = 0
    /\ subchunk2Size = 0
    /\ data = <<>>
    /\ reportsEOF = FALSE
    /\ wavFile \in [openable : BOOLEAN, seekable : BOOLEAN, bytes : WavFiles]
    /\ header = <<>>
    /\ wavFormat = "none"
    /\ pos = 0
    /\ created = FALSE
    /\ out = <<>>
    /\ minBlockSize = 0
    /\ maxBlockSize = 0
    /\ md5sum = <<>>
    /\ streamInfo = <<>>
    /\ pc = "open"
    /\ call = "NewWAVFormat"
    /\ block = <<>>
    /\ idx = 1
    /\ result = "none"
    /\ ioErr = FALSE
    /\ madeBy = "none"
    /\ delivered = <<>>
    /\ blockStart = 0
    /\ readRet = [n |-> 0, atEnd |-> FALSE, err |-> "none"]
    /\ blockOrder = "full"
    /\ input = "nil"
    /\ outOpen = FALSE
    /\ calls = 0
    /\ closeRet = "none"

NextWav ==
    \/ OpenFile
    \/ ReadChunkID
    \/ ReadHeaderField
    \/ CheckTags
    \/ SeekDataOffset

SpecWav == InitWav /\ [][NextWav]_vars

(***************************************************************************)
(* The STREAMINFO body as it stands in the output.                         *)
(***************************************************************************)
\* The bytes written before the body: the marker (in Encode) and the block header.
BodyStart == IF call = "Encode" THEN 8 ELSE 4

\* writeStreamInfo has written the whole body.
BodyWritten ==
    IF call = "Encode"
      THEN pc \in {"read", "block", "footer", "panicked"}
           \/ result \in {"readErr", "encodeErr", "footerErr"}
      ELSE result = "nil"

\* Byte k (from 0, as in the Go code) of the body in the output.
BodyByte(k) == out[BodyStart + k + 1]

Body == SubSeq(out, BodyStart + 1, BodyStart + StreamInfoSize)

(***************************************************************************)
(* The claims.                                                             *)
(***************************************************************************)
ValidChannels == 1..8
ValidBitDepths == 4..32

\* The source declares a channel count and a bit depth FLAC can hold.
ValidSource == channels \in ValidChannels /\ bitDepth \in ValidBitDepths

\* C1: a call of Encode on a finite source whose reads do not fail comes to
\* an end; the read/encode loop does not run forever.  (FairSpec)
EncodeReturns == ValidSource => <>(pc \in {"done", "panicked"})

\* C2: when the header is written, every block is encoded without error and
\* the source reports end of stream, Encode returns nil.
CleanRunReturnsNil ==
    (ValidSource /\ pc = "done" /\ call = "Encode" /\ created /\ ~ioErr)
        => result = "nil"

\* C3: when a Write to the output or a read of the source returns an error
\* (other than io.EOF), Encode returns a non-nil error in that very step, and
\* from then on writes no byte and reads nothing.
ErrorEndsEncode ==
    [][ /\ ioErr' => (pc' = "done" /\ result' \in {"headerErr", "readErr", "encodeErr"})
        /\ ioErr => (out' = out /\ pos' = pos /\ pc # "read") ]_vars

\* C3, witness: a sample Write failed after the header and part of a block.
WriteErrorMidBlock == ioErr /\ result = "encodeErr" /\ Len(out) > 42 /\ pos > 0

\* C4: the 16 checksum bytes of the descriptor are the MD5 digest of the
\* sample bytes read from the source during the run.
ChecksumIsMD5 ==
    (ValidSource /\ madeBy = "NewEncoder" /\ BodyWritten
       /\ (pc = "done" \/ pos = Len(data)))
        => SubSeq(Body, 19, 34) = MD5(SubSeq(data, 1, pos))

\* C5: once writeStreamHeader has succeeded the output begins with "fLaC",
\* 00 00 00 22 and a 34-byte body, 42 bytes in all, and no byte of a block is
\* written before these 42.
HeaderBeforeBlocks ==
    call = "Encode" =>
        /\ BodyWritten =>
              /\ Len(out) >= 42
              /\ SubSeq(out, 1, 8) = <<102, 76, 97, 67, 0, 0, 0, 34>>
              /\ SubSeq(out, 9, 42) = streamInfo
              /\ Len(streamInfo) = 34
        /\ (BodyWritten /\ pos = 0) => Len(out) = 42
        /\ ~BodyWritten => Len(out) < 42

\* C5, witness: the header is complete and a sample of a block has been written.
BlockByteAfterHeader == pc = "block" /\ idx > 1 /\ Len(out) > 42

\* C6: for channels in 1..8 and bit depths in 4..32 the byte at streamInfo[14]
\* determines both: no other pair gives the same byte.
ChannelsBitsReadBack ==
    (BodyWritten /\ ValidSource)
        => \A c \in ValidChannels, b \in ValidBitDepths :
              ChannelsBitsByte(c, b) = BodyByte(14) => (c = channels /\ b = bitDepth)

\* C7: with a 16-byte md5sum, the body holds the checksum and, untouched by
\* it, the bytes of the total sample count.
TotalSamplesSurvivesChecksum ==
    (BodyWritten /\ ValidSource /\ Len(md5sum) = 16)
        => /\ SubSeq(Body, 19, 34) = md5sum
           /\ SubSeq(Body, 19, 26) = PutUint64BE(TotalSamples)

\* C8: the sample rate is in body bits 80..99 (bytes 10, 11 and the high
\* nibble of byte 12) and the channel and bit-depth fields are the next 8 bits.
SampleRateAtBits80 ==
    (BodyWritten /\ ValidSource)
        => /\ BodyByte(10) * 4096 + BodyByte(11) * 16 + (BodyByte(12) \div 16) = sampleRate
           /\ (BodyByte(12) % 16) * 16 + (BodyByte(13) \div 16)
                 = (channels - 1) * 32 + (bitDepth - 1)

\* A value that does not fit its STREAMINFO field.
Unfit ==
    \/ minBlockSize = 0
    \/ minBlockSize > 65535
    \/ maxBlockSize > 65535
    \/ ~ValidSource

\* C9: writeStreamInfo returns an error and writes no body when a value does
\* not fit its field.
InfoRejectsUnfit ==
    (call = "writeStreamInfo" /\ pc = "done" /\ Unfit)
        => (result # "nil" /\ Len(out) <= 4)

\* C10: with a bit depth, channel count or block size out of range, NewEncoder
\* and Encode fail before any I/O: no output file is created or written and
\* the source is not read.
ConfigCheckedBeforeIO ==
    (madeBy # "literal" /\ pc # "new" /\ Unfit)
        => /\ ~created
           /\ out = <<>>
           /\ pos = 0
           /\ pc = "done"
           /\ result # "nil"

\* The int32 a reader takes from four bytes of the stream, little-endian.
Int32OfLE(b) ==
    b[1] + 256 * b[2] + 65536 * b[3]
    + 16777216 * (IF b[4] >= 128 THEN b[4] - 256 ELSE b[4])

\* The samples read back from the output after its 42 header bytes: every
\* whole group of four bytes, in stream order.
SamplesWritten ==
    [k \in 1..((Len(out) - 42) \div 4) |->
        Int32OfLE(SubSeq(out, 42 + 4 * (k - 1) + 1, 42 + 4 * k))]

\* C11: the samples read back from the output after the 42 header bytes are
\* the samples the source delivered, in order: all of them whenever Encode is
\* between blocks, and inside a block all but the ones encodeBlock has still
\* to write.
WrittenIsDelivered ==
    (call = "Encode" /\ BodyWritten) =>
        /\ Len(SamplesWritten) <= Len(delivered)
        /\ SamplesWritten = SubSeq(delivered, 1, Len(SamplesWritten))
        /\ pc \in {"read", "footer", "panicked"} => SamplesWritten = delivered
        /\ result = "footerErr" => SamplesWritten = delivered
        /\ pc = "block" => Len(SamplesWritten) = Len(delivered) - Len(block) + idx - 1

\* C11, witness: two blocks of one sample each, a negative and a positive
\* sample, are both written and Encode is back at the read.
TwoBlocksWritten ==
    /\ pc = "read"
    /\ blockStart > 42
    /\ Len(delivered) = 2
    /\ delivered[1] < 0 /\ delivered[2] > 0
    /\ Len(out) = 50

\* C12: when encodeBlock has written a whole block of N samples from a source
\* of bit depth d in 4..32, the bits it has added to the output are at most
\* N * d.
BlockWithinVerbatimCost ==
    (ValidSource /\ pc = "block" /\ idx > Len(block))
        => (Len(out) - blockStart) * 8 <= Len(block) * bitDepth

\* C13: a call of WAVFormat.ReadSamples made when every sample byte of the
\* file has been consumed, and whose read does not fail, returns io.EOF.
ExhaustedReadReportsEOF ==
    (ValidSource /\ ~reportsEOF /\ readRet.atEnd /\ readRet.err # "error")
        => readRet.err = "EOF"

\* C14: once Encode has returned on an Encoder, with nil or with an error, a
\* later call of Encode on it adds no byte to the output.  (SpecAgain)
ReturnedEncoderWritesNothing == [][calls >= 2 => out' = out]_vars

\* C15: after Close has returned the output handle is not open, whether
\* Encode was never called or had returned, with nil or with an error; and
\* when NewEncoder fails there is no Encoder and no open handle.  (SpecClose)
CloseReleasesOutput ==
    /\ closeRet # "none" => ~outOpen
    /\ result = "createErr" => (~outOpen /\ madeBy = "none")

\* C15, witness: Close has returned on an Encoder from NewEncoder whose Encode
\* had failed in the middle of a block.
ClosedAfterFailedEncode ==
    /\ closeRet # "none"
    /\ madeBy = "NewEncoder"
    /\ result = "encodeErr"
    /\ Len(out) > 42

\* C17: when NewEncoder has returned, either the output file could not be
\* created and it returned no Encoder and an error, or it returned an Encoder
\* whose input is the source it was given and whose minBlockSize and
\* maxBlockSize are both 4096, and no error.
NewEncoderDefaults ==
    (pc # "new" /\ madeBy # "literal") =>
        IF created
          THEN /\ madeBy = "NewEncoder"
               /\ input = "source"
               /\ minBlockSize = 4096
               /\ maxBlockSize = 4096
               /\ result # "createErr"
          ELSE /\ madeBy = "none"
               /\ input = "nil"
               /\ result = "createErr"
               /\ pc = "done"

\* C17, witness: NewEncoder has just returned an Encoder.
NewEncoderBuilt == madeBy = "NewEncoder" /\ pc = "ready" /\ created /\ calls = 0

\* C18: every block Encode hands to encodeBlock holds at least one sample and
\* at most minBlockSize * channels, and no block follows one that is shorter
\* than minBlockSize * channels.
BlocksFullButLast ==
    (ValidSource /\ pc = "block") =>
        /\ Len(block) >= 1
        /\ Len(block) <= BufferLen
        /\ blockOrder # "afterShort"

\* C19: for a bit depth d of 8, 16, 24 or 32 the value bytesToInt32 gives for a
\* group of d/8 bytes lies in -2^(d-1) .. 2^(d-1)-1, and no other group of d/8
\* bytes gives the same value.  (SpecConv)
ConversionKeepsSample ==
    pc = "converted" =>
        LET half == 2 ^ (bitDepth - 2)
            v == block[1]
        IN  /\ (0 - half) - half <= v
            /\ v <= (half - 1) + half
            /\ \A g \in ByteGroups(bitDepth \div 8) :
                   bytesToInt32(bitDepth, g) = v => g = data

\* C19, witness: three bytes with the top bit set are converted to a negative
\* sample.
NegativeSampleConverted ==
    pc = "converted" /\ bitDepth = 24 /\ data[3] = 128 /\ block[1] < 0

\* The file opens, all 44 header bytes are there and were read without an
\* error, and the four tags are "RIFF", "WAVE", "fmt " and "data".
HeaderReadable ==
    /\ wavFile.openable
    /\ Len(wavFile.bytes) >= WAVHeaderSize
    /\ ~ioErr
    /\ ChunkIDOf(wavFile.bytes) = TagRIFF
    /\ FormatOf(wavFile.bytes) = TagWAVE
    /\ Subchunk1IDOf(wavFile.bytes) = TagFmt
    /\ Subchunk2IDOf(wavFile.bytes) = TagData

\* C16 as stated: NewWAVFormat returns a format and a nil error exactly when
\* the file opens, the 44-byte header is read and the four tags are right,
\* and otherwise no format and an error.  (SpecWav)
FormatIffHeaderReadable ==
    (call = "NewWAVFormat" /\ pc = "done") =>
        IF HeaderReadable
          THEN wavFormat = "wav" /\ result = "nil"
          ELSE wavFormat = "nil" /\ result \notin {"nil", "none"}

\* C16, amended: NewWAVFormat returns a format and a nil error exactly when
\* the file opens, the 44-byte header is read, the four tags are right and
\* the file gives its offset to Seek; otherwise no format and an error.  The
\* format holds the fields of the header.  (SpecWav)
FormatIffHeaderReadableAndSeekable ==
    (call = "NewWAVFormat" /\ pc = "done") =>
        IF HeaderReadable /\ wavFile.seekable
          THEN /\ wavFormat = "wav" /\ result = "nil"
               /\ sampleRate = 44100 /\ channels = 1 /\ bitDepth = 8
               /\ header = SubSeq(wavFile.bytes, 1, WAVHeaderSize)
          ELSE wavFormat = "nil" /\ result \notin {"nil", "none"}

\* C16, witness: a file with a whole, well-tagged header and one sample byte
\* has been opened and NewWAVFormat has returned its format.
WavFormatReturned ==
    /\ call = "NewWAVFormat"
    /\ pc = "done"
    /\ wavFormat = "wav"
    /\ Len(wavFile.bytes) = 45
    /\ data = <<200>>

====
